---- MODULE Spec2Model ----
(***************************************************************************)
(* Model of pkg/genlib: the custom-template tokenizer                      *)
(* (parseCustomTemplate), the two event-count estimators and the two       *)
(* generators (GeneratorWithCustomTemplate, GeneratorWithTextTemplate).    *)
(*                                                                         *)
(* Bytes are one-character strings, byte slices are sequences of them.     *)
(* Offsets into a slice are Go's (0-based); At and Slice convert.          *)
(***************************************************************************)
EXTENDS Integers, Sequences, FiniteSets, TLC

VARIABLES
  variant,          \* which constructor the caller uses: "custom" or "text"
  tpl,              \* the template handed to the constructor, as tokens
  fields,           \* the Fields argument: declared field name -> kind of its definition
  totSize,          \* the totSize argument
  res,              \* outcome of the constructor: "none" (not yet called), "ok", "error", "panic"
  parsed,           \* locals of NewGeneratorWithCustomTemplate set at line 119
  sampleLen,        \* singleEventSize measured by the estimator, -1 when none was measured
  totEvents,        \* gen.totEvents
  emitters,         \* gen.emitters
  trailingTemplate, \* gen.trailingTemplate
  state,            \* gen.state: the run's GenState
  errChan,          \* gen.errChan: "open" or "closed"
  closes,           \* number of close(errChan) statements executed so far
  buf,              \* the caller's output buffer
  calls,            \* number of Emit calls the caller has made
  last              \* the last Emit call: what it returned and wrote, the values the field
                    \* functions produced in it, the unresolved lookups its render made

vars == <<variant, tpl, fields, totSize, res, parsed, sampleLen, totEvents,
          emitters, trailingTemplate, state, errChan, closes, buf, calls, last>>

----------------------------------------------------------------------------
(* Bounds of the model *)

\* templates are built from at most MaxTok tokens
MaxTok == 3
\* the caller makes at most MaxCalls calls to Emit
MaxCalls == 3
\* target sizes N*5+3 are offered for N in 1..MaxSample
MaxSample == 4

----------------------------------------------------------------------------
(* Byte slices *)

LBrace == "{"
RBrace == "}"
Dot == "."

At(t, i) == t[i + 1]

Slice(t, lo, hi) == SubSeq(t, lo + 1, hi)

Min(S) == CHOOSE x \in S : \A y \in S : x <= y

RECURSIVE Flatten(_)
Flatten(ss) == IF ss = <<>> THEN <<>> ELSE Head(ss) \o Flatten(Tail(ss))

\* bytes.Index: offset of the first occurrence of sep in s, -1 when there is none
BytesIndex(s, sep) ==
  LET hits == {i \in 0..(Len(s) - Len(sep)) : Slice(s, i, i + Len(sep)) = sep}
  IN IF hits = {} THEN -1 ELSE Min(hits)

----------------------------------------------------------------------------
\* The tokenizer regexp of line 33 (a run of bytes other than an opening brace,
\* then any number of placeholders) and FindAllSubmatchIndex

RECURSIVE RunEnd(_, _, _)
\* end offset of the longest run, from offset p, of bytes other than c
RunEnd(t, p, c) ==
  IF p < Len(t) /\ At(t, p) # c THEN RunEnd(t, p + 1, c) ELSE p

\* one placeholder (two opening braces, a dot, one or more bytes other than a
\* closing brace, two closing braces) at offset q: the offset after it, or -1
PlaceholderEnd(t, q) ==
  LET r == RunEnd(t, q + 3, RBrace)
  IN IF /\ q + 3 <= Len(t)
        /\ At(t, q) = LBrace /\ At(t, q + 1) = LBrace /\ At(t, q + 2) = Dot
        /\ r > q + 3
        /\ r + 2 <= Len(t)
        /\ At(t, r) = RBrace /\ At(t, r + 1) = RBrace
     THEN r + 2
     ELSE -1

RECURSIVE Placeholders(_, _, _)
\* the starred placeholder group from offset q, greedy: <<end, start and end of
\* the last iteration>>;
\* the capture group keeps its last iteration only
Placeholders(t, q, lastIter) ==
  LET e == PlaceholderEnd(t, q)
  IN IF e = -1 THEN <<q, lastIter[1], lastIter[2]>>
     ELSE Placeholders(t, e, <<q, e>>)

\* the match of the tokenizer at offset pos (it matches the empty string everywhere,
\* so the leftmost match starts at pos): loc[0..5] as <<m[1], ..., m[6]>>
tokenizer(t, pos) ==
  LET g1e == RunEnd(t, pos, LBrace)
      ph == Placeholders(t, g1e, <<-1, -1>>)
  IN <<pos, ph[1], pos, g1e, ph[2], ph[3]>>

Loc(m, k) == m[k + 1]

RECURSIVE allMatches(_, _, _, _)
\* regexp.allMatches: an empty match right after the previous match is dropped
allMatches(t, pos, prevMatchEnd, acc) ==
  IF pos > Len(t) THEN acc
  ELSE LET m == tokenizer(t, pos)
           empty == Loc(m, 1) = pos
           accept == ~(empty /\ Loc(m, 0) = prevMatchEnd)
           next == IF empty
                   THEN (IF pos < Len(t) THEN pos + 1 ELSE Len(t) + 1)
                   ELSE Loc(m, 1)
       IN allMatches(t, next, Loc(m, 1), IF accept THEN Append(acc, m) ELSE acc)

FindAllSubmatchIndex(t) == allMatches(t, 0, -1, <<>>)

----------------------------------------------------------------------------
(* parseCustomTemplate *)

EmptyMap == [n \in {} |-> <<>>]

MapPut(m, k, v) == [n \in (DOMAIN m) \cup {k} |-> IF n = k THEN v ELSE m[n]]

\* the locals of parseCustomTemplate before the first iteration
ParseLocals ==
  [orderedFields |-> <<>>, templateFieldsMap |-> EmptyMap, fieldPrefixBuffer |-> <<>>,
   fieldPrefixPreviousN |-> 0, trimTrailingTemplateN |-> 0]

\* one iteration of the loop over allIndexes (i is 0-based)
ParseStep(template, allIndexes, i, l) ==
  LET loc == allIndexes[i + 1]
      fieldName == IF Loc(loc, 4) > -1 /\ Loc(loc, 5) > -1
                   THEN Slice(template, Loc(loc, 4) + 3, Loc(loc, 5) - 2)
                   ELSE <<>>
      fieldPrefix == IF Loc(loc, 2) > -1 /\ Loc(loc, 3) > -1
                     THEN Slice(template, Loc(loc, 2), Loc(loc, 3))
                     ELSE <<>>
      appended == l.fieldPrefixBuffer \o fieldPrefix
      idx == BytesIndex(Slice(template, l.trimTrailingTemplateN, Len(template)), appended)
      body ==
        IF Len(fieldName) = 0
        THEN IF At(template, l.fieldPrefixPreviousN) = LBrace
             THEN [l EXCEPT !.fieldPrefixBuffer = Append(@, LBrace)]
             ELSE IF i = Len(allIndexes) - 1
                  THEN [l EXCEPT !.fieldPrefixBuffer =
                                   Slice(template, l.trimTrailingTemplateN, Len(template))]
                  ELSE [l EXCEPT !.fieldPrefixBuffer = appended,
                                 !.trimTrailingTemplateN = IF idx > 0 THEN @ + idx ELSE @]
        ELSE [l EXCEPT !.fieldPrefixBuffer = <<>>,
                       !.trimTrailingTemplateN = Loc(loc, 5),
                       !.templateFieldsMap = MapPut(@, fieldName, appended),
                       !.orderedFields = Append(@, fieldName)]
  IN [body EXCEPT !.fieldPrefixPreviousN = Loc(loc, 2)]

RECURSIVE ParseLoop(_, _, _, _)
ParseLoop(template, allIndexes, i, l) ==
  IF i >= Len(allIndexes) THEN l
  ELSE ParseLoop(template, allIndexes, i + 1, ParseStep(template, allIndexes, i, l))

\* parseCustomTemplate: (orderedFields, templateFieldsMap, trailing literal)
parseCustomTemplate(template) ==
  IF Len(template) = 0
  THEN [orderedFields |-> <<>>, templateFieldsMap |-> EmptyMap, trailing |-> <<>>]
  ELSE LET l == ParseLoop(template, FindAllSubmatchIndex(template), 0, ParseLocals)
       IN [orderedFields |-> l.orderedFields,
           templateFieldsMap |-> l.templateFieldsMap,
           trailing |-> l.fieldPrefixBuffer]

----------------------------------------------------------------------------
(* The inputs of the constructors *)

\* a template is a sequence of tokens: literal text, or a reference to a field
\* (the placeholder of the custom syntax, a call of generate in a text template)
Lit(bytes) == <<"lit", bytes>>
Ref(name) == <<"ref", name>>

IsRef(tok) == tok[1] = "ref"

FieldNames == {<<"x">>, <<"y">>}

Tokens == {Lit(<<"a">>), Lit(<<LBrace>>)} \cup {Ref(f) : f \in FieldNames}

Templates == UNION {[1..n -> Tokens] : n \in 0..MaxTok}

\* the bytes of a token in the custom syntax
TokenBytes(tok) ==
  IF IsRef(tok) THEN <<LBrace, LBrace, Dot>> \o tok[2] \o <<RBrace, RBrace>> ELSE tok[2]

\* the template as the []byte argument of NewGeneratorWithCustomTemplate
TemplateBytes(t) == Flatten([i \in 1..Len(t) |-> TokenBytes(t[i])])

\* Fields: the declared fields, each with what its definition leads bindField and
\* the bound function to do: "ok", "badbind" (bindField returns an error),
\* "failing" (the bound emit function returns an error)
FieldSets ==
  {f \in UNION {[D -> {"ok", "badbind", "failing"}] : D \in {{}, {<<"x">>}, FieldNames}} :
     \A n \in DOMAIN f : n # <<"x">> => f[n] = "ok"}

TotSizes == {0, 3} \cup {n * 5 + 3 : n \in 1..MaxSample}

----------------------------------------------------------------------------
(* GenState and the bound field functions *)

\* NewGenState
NewGenState == [counter |-> 0, prevCacheForDup |-> EmptyMap, prevCacheCardinality |-> EmptyMap]

\* the run's state as the constructors set it up: one empty entry per declared field
SetupState(names) ==
  [counter |-> 0,
   prevCacheForDup |-> [n \in names |-> {}],
   prevCacheCardinality |-> [n \in names |-> <<>>]]

\* the estimator's state for one call: fresh, with the entries of that field alone
FreshState(name) ==
  [NewGenState EXCEPT !.prevCacheForDup = MapPut(@, name, {}),
                      !.prevCacheCardinality = MapPut(@, name, <<>>)]

\* the values a bound field function cycles through
FieldValues == << <<"2", "2">>, <<"1">> >>

\* a bound field function called with state st: the value it produces and the
\* state it leaves (bounded-cardinality cycling, recorded in the state it is given)
FieldCall(name, st) ==
  LET card == st.prevCacheCardinality[name]
  IN IF Len(card) < Len(FieldValues)
     THEN LET v == FieldValues[Len(card) + 1]
          IN [val |-> v,
              st |-> [st EXCEPT !.prevCacheCardinality[name] = Append(@, v),
                                !.prevCacheForDup[name] = @ \cup {v}]]
     ELSE [val |-> card[(st.counter % Len(card)) + 1], st |-> st]

----------------------------------------------------------------------------
(* Custom-template generator *)

\* customTotEvents with the division rounding up instead of down
customTotEventsRoundUp(size, singleEventSize) ==
  IF singleEventSize = 0 THEN 1
  ELSE LET n == (size + singleEventSize - 1) \div singleEventSize IN IF n < 1 THEN 1 ELSE n

\* lines 104-114: the event count from the size of the sample event
customTotEvents(size, singleEventSize) ==
  IF singleEventSize = 0 THEN 1
  ELSE LET n == size \div singleEventSize IN IF n < 1 THEN 1 ELSE n

RECURSIVE sampleEmitters(_, _, _, _)
\* lines 92-100: the estimator's loop over the emitters, from emitter i, each
\* emit function called with a state of its own
sampleEmitters(fs, es, i, out) ==
  IF i > Len(es) THEN [err |-> FALSE, out |-> out]
  ELSE LET e == es[i]
           written == out \o e.prefix
       IN IF fs[e.fieldName] = "failing"
          THEN [err |-> TRUE, out |-> written]
          ELSE sampleEmitters(fs, es, i + 1,
                              written \o FieldCall(e.fieldName, FreshState(e.fieldName)).val)

\* calculateTotEventsWithCustomTemplate
calculateTotEventsWithCustomTemplate(size, fs, es, trailing) ==
  IF size = 0 THEN [err |-> FALSE, totEvents |-> 0, sample |-> -1]
  ELSE LET r == sampleEmitters(fs, es, 1, <<>>)
       IN IF r.err THEN [err |-> TRUE, totEvents |-> 0, sample |-> -1]
          ELSE [err |-> FALSE, totEvents |-> customTotEvents(size, Len(r.out \o trailing)),
                sample |-> Len(r.out \o trailing)]

NoParse == [orderedFields |-> <<>>, templateFieldsMap |-> EmptyMap, trailing |-> <<>>]

NoLast == [ret |-> "none", wrote |-> <<>>, vals |-> <<>>, unresolved |-> 0]

\* lines 121-151 of NewGeneratorWithCustomTemplate, after the template is parsed
\* into p: bind the fields, roll the emitters, estimate. The assertion
\* fieldMap[fieldName].(emitFNotReturn) panics on a name bindField never bound.
customGenerator(p, fs, size) ==
  LET names == DOMAIN fs
      bindErr == \E n \in names : fs[n] = "badbind"
      unbound == \E i \in 1..Len(p.orderedFields) : p.orderedFields[i] \notin names
      es == [i \in 1..Len(p.orderedFields) |->
               [fieldName |-> p.orderedFields[i],
                prefix |-> p.templateFieldsMap[p.orderedFields[i]]]]
      none == [res |-> "error", sample |-> -1, totEvents |-> 0, emitters |-> <<>>,
               trailingTemplate |-> <<>>, state |-> NewGenState]
  IN IF bindErr THEN none
     ELSE IF unbound THEN [none EXCEPT !.res = "panic"]
     ELSE LET est == calculateTotEventsWithCustomTemplate(size, fs, es, p.trailing)
          IN IF est.err THEN none
             ELSE [res |-> "ok", sample |-> est.sample, totEvents |-> est.totEvents,
                   emitters |-> es, trailingTemplate |-> p.trailing,
                   state |-> SetupState(names)]

\* NewGeneratorWithCustomTemplate(template, cfg, fields, totSize)
NewGeneratorWithCustomTemplate ==
  /\ variant = "custom"
  /\ res = "none"
  /\ \E p \in {parseCustomTemplate(TemplateBytes(tpl))} :
       \E g \in {customGenerator(p, fields, totSize)} :
         /\ parsed' = p
         /\ res' = g.res
         /\ sampleLen' = g.sample
         /\ totEvents' = g.totEvents
         /\ emitters' = g.emitters
         /\ trailingTemplate' = g.trailingTemplate
         /\ state' = g.state
  /\ UNCHANGED <<variant, tpl, fields, totSize, errChan, closes, buf, calls, last>>

RECURSIVE emitEmitters(_, _, _, _, _, _)
\* lines 171-176: emit's loop over gen.emitters, from emitter i, every emit
\* function called with the run's state
emitEmitters(fs, es, i, st, out, vals) ==
  IF i > Len(es) THEN [err |-> FALSE, out |-> out, st |-> st, vals |-> vals]
  ELSE LET e == es[i]
           written == out \o e.prefix
           c == FieldCall(e.fieldName, st)
       IN IF fs[e.fieldName] = "failing"
          THEN [err |-> TRUE, out |-> written, st |-> st, vals |-> vals]
          ELSE emitEmitters(fs, es, i + 1, c.st, written \o c.val, Append(vals, c.val))

\* GeneratorWithCustomTemplate.Emit(state, buf), with emit; the state argument is
\* overwritten with gen.state (line 159)
EmitCustom ==
  /\ variant = "custom"
  /\ res = "ok"
  /\ calls < MaxCalls
  /\ calls' = calls + 1
  /\ IF totEvents = 0 \/ state.counter < totEvents
     THEN \E r \in {emitEmitters(fields, emitters, 1, state, <<>>, <<>>)} :
             IF r.err
             THEN /\ buf' = buf \o r.out
                  /\ state' = r.st
                  /\ last' = [ret |-> "err", wrote |-> r.out, vals |-> r.vals, unresolved |-> 0]
             ELSE /\ buf' = buf \o r.out \o trailingTemplate
                  /\ state' = [r.st EXCEPT !.counter = @ + 1]
                  /\ last' = [ret |-> "nil", wrote |-> r.out \o trailingTemplate,
                              vals |-> r.vals, unresolved |-> 0]
     ELSE /\ last' = [ret |-> "EOF", wrote |-> <<>>, vals |-> <<>>, unresolved |-> 0]
          /\ UNCHANGED <<buf, state>>
  /\ UNCHANGED <<variant, tpl, fields, totSize, res, parsed, sampleLen, totEvents,
                 emitters, trailingTemplate, errChan, closes>>

----------------------------------------------------------------------------
(* Text-template generator *)

\* what the template engine prints for the nil a failed lookup returns
NoValue == <<"<", "n", "o", " ", "v", "a", "l", "u", "e", ">">>

\* lines 138-146: templateFns["generate"], the closure over fieldMap, the run's
\* state and errChan. Closing a closed channel panics.
generate(fs, name, st, ch) ==
  IF name \in DOMAIN fs
  THEN LET c == FieldCall(name, st)
       IN [panic |-> FALSE, bound |-> TRUE, val |-> c.val, st |-> c.st, ch |-> ch, closed |-> 0]
  ELSE [panic |-> ch = "closed", bound |-> FALSE, val |-> NoValue, st |-> st,
        ch |-> "closed", closed |-> 1]

RECURSIVE Execute(_, _, _, _)
\* Template.Execute(buf, nil) of the parsed template, from token i, with generate
\* as registered in templateFns; a panic in a called function ends the
\* execution with an error, the output written so far stays in the buffer
Execute(fs, t, i, r) ==
  IF i > Len(t) THEN r
  ELSE IF ~IsRef(t[i]) THEN Execute(fs, t, i + 1, [r EXCEPT !.out = @ \o t[i][2]])
  ELSE LET g == generate(fs, t[i][2], r.st, r.ch)
       IN IF g.panic
          THEN [r EXCEPT !.err = TRUE, !.closes = @ + g.closed,
                         !.unresolved = @ + 1]
          ELSE Execute(fs, t, i + 1,
                       [err |-> FALSE, out |-> r.out \o g.val, st |-> g.st, ch |-> g.ch,
                        closes |-> r.closes + g.closed,
                        vals |-> IF g.bound THEN Append(r.vals, g.val) ELSE r.vals,
                        unresolved |-> r.unresolved + (IF g.bound THEN 0 ELSE 1)])

\* an execution that has written nothing yet
Render(fs, t, st, ch) ==
  Execute(fs, t, 1, [err |-> FALSE, out |-> <<>>, st |-> st, ch |-> ch, closes |-> 0,
                     vals |-> <<>>, unresolved |-> 0])

\* lines 99-109: the event count from the size of the sample event
textTotEvents(size, singleEventSize) ==
  IF singleEventSize = 0 THEN 1
  ELSE LET n == size \div singleEventSize IN IF n < 1 THEN 1 ELSE n

\* calculateTotEventsWithTextTemplate(totSize, fieldMap, errChan, tpl, templateFns):
\* errChan is polled before the sample is rendered (lines 78-86); the template is
\* parsed with templateFns (line 88), so the sample render calls the
\* generator's own generate, with the run's state st and errChan ch
calculateTotEventsWithTextTemplate(size, fs, t, st, ch) ==
  LET none == [err |-> FALSE, totEvents |-> 0, sample |-> -1, st |-> st, ch |-> ch,
               closes |-> 0]
      r == Render(fs, t, st, ch)
      singleEventSize == Len(r.out)
  IN IF size = 0 THEN none
     ELSE IF ch = "closed" THEN [none EXCEPT !.err = TRUE]
     ELSE IF r.err THEN [none EXCEPT !.err = TRUE, !.st = r.st, !.ch = r.ch,
                                     !.closes = r.closes]
     ELSE [err |-> FALSE, totEvents |-> textTotEvents(size, singleEventSize),
           sample |-> singleEventSize, st |-> r.st, ch |-> r.ch, closes |-> r.closes]

\* lines 114-161 of NewGeneratorWithTextTemplate: bind the fields, make errChan,
\* register generate, estimate, parse
textGenerator(t, fs, size) ==
  LET names == DOMAIN fs
      bindErr == \E n \in names : fs[n] = "badbind"
      none == [res |-> "error", sample |-> -1, totEvents |-> 0, state |-> NewGenState,
               errChan |-> "open", closes |-> 0]
  IN IF bindErr THEN none
     ELSE LET est == calculateTotEventsWithTextTemplate(size, fs, t, SetupState(names), "open")
          IN IF est.err THEN [none EXCEPT !.closes = est.closes]
             ELSE [res |-> "ok", sample |-> est.sample, totEvents |-> est.totEvents,
                   state |-> est.st, errChan |-> est.ch, closes |-> est.closes]

\* NewGeneratorWithTextTemplate(tpl, cfg, fields, totSize)
NewGeneratorWithTextTemplate ==
  /\ variant = "text"
  /\ res = "none"
  /\ \E g \in {textGenerator(tpl, fields, totSize)} :
       /\ res' = g.res
       /\ closes' = closes + g.closes
       /\ sampleLen' = g.sample
       /\ totEvents' = g.totEvents
       /\ state' = g.state
       /\ errChan' = g.errChan
  /\ UNCHANGED <<variant, tpl, fields, totSize, parsed, emitters, trailingTemplate,
                 buf, calls, last>>

\* GeneratorWithTextTemplate.Emit(state, buf), with emit; the state argument is
\* overwritten with gen.state (line 169)
EmitText ==
  /\ variant = "text"
  /\ res = "ok"
  /\ calls < MaxCalls
  /\ calls' = calls + 1
  /\ IF totEvents = 0 \/ state.counter < totEvents
     THEN IF errChan = "closed"
          THEN /\ last' = [ret |-> "err", wrote |-> <<>>, vals |-> <<>>, unresolved |-> 0]
               /\ UNCHANGED <<buf, state, errChan, closes>>
          ELSE \E r \in {Render(fields, tpl, state, errChan)} :
                  /\ buf' = buf \o r.out
                  /\ errChan' = r.ch
                  /\ closes' = closes + r.closes
                  /\ state' = IF r.err THEN r.st ELSE [r.st EXCEPT !.counter = @ + 1]
                  /\ last' = [ret |-> IF r.err THEN "err" ELSE "nil", wrote |-> r.out,
                              vals |-> r.vals, unresolved |-> r.unresolved]
     ELSE /\ last' = [ret |-> "EOF", wrote |-> <<>>, vals |-> <<>>, unresolved |-> 0]
          /\ UNCHANGED <<buf, state, errChan, closes>>
  /\ UNCHANGED <<variant, tpl, fields, totSize, res, parsed, sampleLen, totEvents,
                 emitters, trailingTemplate>>

\* Close of either generator: nothing to release
Close ==
  /\ res = "ok"
  /\ UNCHANGED vars

----------------------------------------------------------------------------
(* The caller: one constructor call, then calls of Emit *)

Init ==
  /\ variant \in {"custom", "text"}
  /\ tpl \in Templates
  /\ fields \in FieldSets
  \* the function bindField binds for a text template returns a value and no error
  /\ variant = "text" => \A n \in DOMAIN fields : fields[n] # "failing"
  /\ totSize \in TotSizes
  /\ res = "none"
  /\ parsed = NoParse
  /\ sampleLen = -1
  /\ totEvents = 0
  /\ emitters = <<>>
  /\ trailingTemplate = <<>>
  /\ state = NewGenState
  /\ errChan = "open"
  /\ closes = 0
  /\ buf = <<>>
  /\ calls = 0
  /\ last = NoLast

Next ==
  \/ NewGeneratorWithCustomTemplate
  \/ NewGeneratorWithTextTemplate
  \/ EmitCustom
  \/ EmitText
  \/ Close

Spec == Init /\ [][Next]_vars

----------------------------------------------------------------------------
(* What the claims speak of *)

RECURSIVE RefNames(_)
\* the field references of a template, in template order, duplicates kept
RefNames(t) ==
  IF t = <<>> THEN <<>>
  ELSE IF IsRef(Head(t)) THEN <<Head(t)[2]>> \o RefNames(Tail(t)) ELSE RefNames(Tail(t))

\* the template references a field that is not in the field set
HasUndeclaredRef == \E i \in 1..Len(tpl) : IsRef(tpl[i]) /\ tpl[i][2] \notin DOMAIN fields

NoFieldFails == \A n \in DOMAIN fields : fields[n] # "failing"

RECURSIVE Subst(_, _)
\* the template's literal text in order, every field reference replaced by the
\* next of the values vs
Subst(t, vs) ==
  IF t = <<>> THEN <<>>
  ELSE IF ~IsRef(Head(t)) THEN Head(t)[2] \o Subst(Tail(t), vs)
  ELSE IF vs = <<>> THEN <<"?">> \o Subst(Tail(t), vs)
  ELSE Head(vs) \o Subst(Tail(t), Tail(vs))

\* C1: a generator built with a bounded event count totEvents >= 1 and field
\* functions that never fail: each of the first totEvents calls of Emit succeeds
\* and advances the counter by 1, and call totEvents+1 returns io.EOF, writes
\* nothing and leaves the counter at totEvents.
C1_EmitUntilEOF ==
  (res = "ok" /\ totEvents >= 1 /\ NoFieldFails /\ calls >= 1) =>
    /\ calls <= totEvents => last.ret = "nil" /\ state.counter = calls
    /\ calls = totEvents + 1 =>
         last.ret = "EOF" /\ last.wrote = <<>> /\ state.counter = totEvents

\* C2: with every referenced field declared, each event either generator writes
\* is the template's literal text in order with every field reference replaced
\* by the value the field function produced for it (hence the same bytes from
\* both generators for the same produced values).
C2_EventIsTemplateWithValues ==
  (res = "ok" /\ last.ret = "nil" /\ ~HasUndeclaredRef) =>
    /\ Len(last.vals) = Len(RefNames(tpl))
    /\ last.wrote = Subst(tpl, last.vals)

\* C3: a text template that calls generate on an undeclared field: a
\* construction whose estimation renders it fails, and no Emit whose render
\* makes the unresolved lookup succeeds.
C3_UnresolvedNeverSucceeds ==
  (variant = "text" /\ HasUndeclaredRef) =>
    /\ res = "ok" => sampleLen = -1
    /\ last.unresolved > 0 => last.ret = "err"

\* C4: NewGeneratorWithCustomTemplate, given a template with a placeholder naming
\* an undeclared field, returns an error and no generator.
C4_CustomUndeclaredIsError ==
  (variant = "custom" /\ res # "none" /\ HasUndeclaredRef) => res = "error"

\* C5: NewGeneratorWithTextTemplate with a nonzero target size, whose sample
\* render looks up an undeclared field, returns an error and no generator.
C5_TextEstimationUndeclaredIsError ==
  (variant = "text" /\ res # "none" /\ totSize # 0 /\ HasUndeclaredRef) => res = "error"

\* C6: parseCustomTemplate's ordered field list is the template's placeholder
\* occurrences in template order, duplicates kept.
C6_OrderedFieldsAreThePlaceholders ==
  (variant = "custom" /\ res # "none") => parsed.orderedFields = RefNames(tpl)

\* C7: for a non-empty template without placeholder, parseCustomTemplate returns
\* an empty field list, an empty prefix map and the whole input as trailing literal.
C7_NoPlaceholderIsAllTrailing ==
  (variant = "custom" /\ res # "none" /\ tpl # <<>> /\ RefNames(tpl) = <<>>) =>
    parsed = [orderedFields |-> <<>>, templateFieldsMap |-> EmptyMap,
              trailing |-> TemplateBytes(tpl)]

\* C8 as stated: for a sample event of N >= 1 bytes and target size N*5+3, the
\* estimators return exactly 5.
C8_FiveForEveryLength ==
  (res = "ok" /\ sampleLen >= 1 /\ totSize = sampleLen * 5 + 3) => totEvents = 5

\* C8 amended: for a sample event of N >= 4 bytes and target size N*5+3, both
\* estimators return exactly 5 (for N in 1..3 the floor of (N*5+3)/N exceeds 5).
C8_FiveFromLengthFour ==
  (res = "ok" /\ sampleLen >= 4 /\ totSize = sampleLen * 5 + 3) => totEvents = 5

\* C8: a construction that measured a sample of at least 4 bytes against the
\* target size N*5+3 and fixed the event count at 5
C8_Witness ==
  res = "ok" /\ sampleLen >= 4 /\ totSize = sampleLen * 5 + 3 /\ totEvents = 5

\* C9: right after a construction with a nonzero target size the run's GenState
\* is as set up: counter 0, an empty dedup set and an empty cardinality sequence
\* for every declared field.
C9_SampleLeavesRunStateAlone ==
  (res = "ok" /\ calls = 0 /\ totSize # 0) => state = SetupState(DOMAIN fields)

\* C10: close(errChan) runs at most once in the lifetime of a generator.
C10_ErrChanClosedAtMostOnce == closes <= 1

====
